---- MODULE Spec2Model ----
(***************************************************************************)
(* Model of the legal repository search backend (main.py as given in       *)
(* legal-search-implementation.md): the POST /search endpoint, the         *)
(* LegalSearchEngine fan-out over the configured repositories, the         *)
(* per-candidate scoring tasks and the final sort.                         *)
(*                                                                         *)
(* Scores and thresholds are kept in hundredths (0.7 is 70, -0.5 is -50).  *)
(* Embedding vectors are pairs of integers whose norms are integers, so    *)
(* that the cosine is an exact number of hundredths.                       *)
(***************************************************************************)
EXTENDS Integers, Sequences, FiniteSets, Bags, TLC

VARIABLES request, pc, prompt, similarity_threshold, query_embedding,
          fetchF, cur, procF, results, error,
          calls,
          app, git, gitStatus, logWidget

\* The request being served, with the locals of its search.
searchVars == <<request, pc, prompt, similarity_threshold, query_embedding,
                fetchF, cur, procF, results, error>>

\* The state of the components of the two front ends.
uiVars == <<app, git, gitStatus, logWidget>>

vars == <<searchVars, calls, uiVars>>

(* ------------------------------ bounds --------------------------------- *)

\* Most the repositories together deliver in one search: candidates, plus
\* responses other than a 200 with a results array.
MaxLoad == 2

\* Most candidates the repositories hand to two concurrent searches together.
MaxInFlight == 2

\* Most submissions of the search form in one run.
MaxSubmits == 3

\* Most polls of the Git status in flight at a time.
MaxPolls == 2

\* Most push requests the Git widget sends in one run.
MaxPushes == 3

\* Most log searches in one run.
MaxLogSearches == 3

(* --------------------------- configuration ----------------------------- *)

\* self.endpoints: the three configured repositories.
Endpoints == {"courtlistener", "public_access", "supreme_court"}

\* SearchRequest.threshold: Optional[float] = 0.7
DefaultThreshold == 70

\* useState(0.7) of SearchForm: the threshold the form starts with.
DefaultSliderThreshold == 70

\* A field a JSON record does not carry.
Missing == "<missing>"

\* The optional threshold of a request body: absent, or one number.
Omitted == <<>>

\* A JSON number in the place of a text (42): truthy, and not a string.
NonString == "<42>"

\* No exception.
NoError == "<none>"

\* A text on which the inference of the embedding model raises.
Unencodable == "<unencodable>"

(* ------------------------------ inputs --------------------------------- *)

\* Query strings a request carries.
Queries == {"", "a", "z", Unencodable}

\* Thresholds a request carries: none, 0.8 and -0.5.
RequestThresholds == {Omitted, <<80>>, <<-50>>}

\* Request bodies: the query "a" with 0.8, the query "z" with -0.5, the empty
\* query and the unencodable one with no threshold.
Requests == [query : {"a"}, threshold : {<<80>>}]
              \cup [query : {"z"}, threshold : {<<-50>>}]
              \cup [query : {"", Unencodable}, threshold : {Omitted}]

\* The records a repository returns, by name.
Record ==
  [ roe    |-> [text |-> "a", title |-> "Roe", court |-> "scotus",
                absolute_url |-> "/op/1", jurisdiction |-> "federal",
                date_created |-> "2021-03-04"],
    bare   |-> [text |-> "a", title |-> Missing, court |-> Missing,
                absolute_url |-> Missing, jurisdiction |-> Missing,
                date_created |-> Missing],
    doe    |-> [text |-> "b", title |-> "Doe", court |-> Missing,
                absolute_url |-> Missing, jurisdiction |-> "state",
                date_created |-> Missing],
    poe    |-> [text |-> "a", title |-> "Poe", court |-> "ca9",
                absolute_url |-> Missing, jurisdiction |-> Missing,
                date_created |-> "03/04/2021"],
    blank  |-> [text |-> "", title |-> "Blank", court |-> Missing,
                absolute_url |-> Missing, jurisdiction |-> Missing,
                date_created |-> Missing],
    notext |-> [text |-> Missing, title |-> "Bare", court |-> Missing,
                absolute_url |-> Missing, jurisdiction |-> Missing,
                date_created |-> "03/04/2021"],
    number |-> [text |-> NonString, title |-> Missing, court |-> Missing,
                absolute_url |-> Missing, jurisdiction |-> Missing,
                date_created |-> Missing] ]

\* A results array is a sequence of names of records.
Docs == DOMAIN Record

RECURSIVE SeqsUpTo(_, _)
SeqsUpTo(S, n) ==
  IF n = 0 THEN {<<>>}
  ELSE LET shorter == SeqsUpTo(S, n - 1)
       IN  shorter \cup {Append(s, x) : s \in {t \in shorter : Len(t) = n - 1}, x \in S}

\* What one repository answers to the GET of _fetch_from_repository.
\*   ok          200, a JSON object with a results array
\*   no_results  200, a JSON object without a results key
\*   timeout     the request times out (requests.Timeout)
\*   bad_status  a non-2xx status
\*   not_json    200, a body that is not JSON
\*   not_object  200, a JSON body that is not an object (an array)
FailureKinds == {"timeout", "bad_status", "not_json", "not_object"}

\* The responses that deliver at most n.
Responses ==
  [n \in 0..MaxLoad |->
     [kind : {"ok"}, results : SeqsUpTo(Docs, n)]
       \cup (IF n = 0 THEN {}
             ELSE [kind : {"no_results"} \cup FailureKinds, results : {<<>>}])]

\* What a response delivers.
Load(response) ==
  Len(response.results) + (IF response.kind \in {"ok", "none"} THEN 0 ELSE 1)

(* --------------------------- pure functions ---------------------------- *)

\* dict.get(key, default)
Get(result, key, default) ==
  IF result[key] = Missing THEN default ELSE result[key]

\* self.model.encode([text])[0]: the sentence embedding of a string; a value
\* that is not a string cannot be tokenized and raises TypeError.
EncodeRaises(text) == text \in {NonString, Unencodable}

\* The text "z" is embedded as the zero vector.
Encode(text) ==
  CASE text = ""  -> <<3, 4>>
    [] text = "a" -> <<1, 0>>
    [] text = "b" -> <<4, 3>>
    [] text = "z" -> <<0, 0>>
    [] OTHER      -> <<0, 0>>

Dot(a, b) == a[1] * b[1] + a[2] * b[2]

\* Euclidean norm (exact on the vectors of Encode).
Norm(a) == CHOOSE n \in 0..5 : n * n = Dot(a, a)

\* Variant: a vector of zero norm is taken to point the same way as any other.
CosineZeroIsOne(a, b) ==
  IF Norm(a) = 0 \/ Norm(b) = 0 THEN 100
  ELSE (100 * Dot(a, b)) \div (Norm(a) * Norm(b))

\* sklearn cosine_similarity: both rows are normalised, a zero norm being
\* replaced by 1, and multiplied. In hundredths.
CosineSimilarity(a, b) ==
  LET na == IF Norm(a) = 0 THEN 1 ELSE Norm(a)
      nb == IF Norm(b) = 0 THEN 1 ELSE Norm(b)
  IN  (100 * Dot(a, b)) \div (na * nb)

\* datetime.fromisoformat: the strings it accepts, and the date of each.
IsoDates == {"2000-01-01", "2021-03-04"}

FromIsoFormat(s) ==
  CASE s = "2000-01-01" -> <<2000, 1, 1>>
    [] s = "2021-03-04" -> <<2021, 3, 4>>

Absent == [tag |-> "none"]
Raised(exc) == [tag |-> "raise", exc |-> exc]
Value(v) == [tag |-> "value", value |-> v]

\* Variant: the test is "content is None": an empty text passes it.
FalsyOnlyNone(content) == content = Missing

\* not content: the empty string is falsy, every other text is truthy.
Falsy(content) == content = ""

\* Variant: every candidate that has a text is admitted.
ClearsAlways(similarity, threshold) == similarity >= similarity

\* Variant: the test is strict.
ClearsStrictly(similarity, threshold) == similarity > threshold

\* The test of _process_result that admits a candidate.
ClearsThreshold(similarity, threshold) == similarity >= threshold

\* Variant: source is read from the jurisdiction field.
MetadataSourceFromJurisdiction(result) ==
  [title        |-> Get(result, "title", "Untitled"),
   source       |-> Get(result, "jurisdiction", "Unknown Court"),
   url          |-> Get(result, "absolute_url", ""),
   jurisdiction |-> Get(result, "jurisdiction", "Unknown")]

\* Variant: the defaults of source and jurisdiction are exchanged.
MetadataSwappedDefaults(result) ==
  [title        |-> Get(result, "title", "Untitled"),
   source       |-> Get(result, "court", "Unknown"),
   url          |-> Get(result, "absolute_url", ""),
   jurisdiction |-> Get(result, "jurisdiction", "Unknown Court")]

\* The descriptive fields of the SearchResult that _process_result builds.
Metadata(result) ==
  [title        |-> Get(result, "title", "Untitled"),
   source       |-> Get(result, "court", "Unknown Court"),
   url          |-> Get(result, "absolute_url", ""),
   jurisdiction |-> Get(result, "jurisdiction", "Unknown")]

\* LegalSearchEngine._process_result(result, query_embedding), as the outcome
\* of its task: None, a SearchResult, or the exception it raises.
ProcessResult(result, qe, threshold) ==
  LET content == Get(result, "text", "")
  IN  IF Falsy(content) THEN Absent
      ELSE IF EncodeRaises(content) THEN Raised("TypeError")
      ELSE LET similarity == CosineSimilarity(qe, Encode(content))
               date == Get(result, "date_created", "2000-01-01")
           IN  IF ClearsThreshold(similarity, threshold)
               THEN IF date \notin IsoDates THEN Raised("ValueError")
                    ELSE Value([title            |-> Metadata(result).title,
                                content          |-> content,
                                source           |-> Metadata(result).source,
                                url              |-> Metadata(result).url,
                                similarity_score |-> similarity,
                                jurisdiction     |-> Metadata(result).jurisdiction,
                                date_published   |-> FromIsoFormat(date)])
               ELSE Absent

\* What requests raises on a response: Timeout, the HTTPError of
\* raise_for_status, the JSONDecodeError of response.json(); and the
\* AttributeError of .get on a decoded body that is not a dict.
ExceptionOf(kind) ==
  CASE kind = "timeout"    -> "Timeout"
    [] kind = "bad_status" -> "HTTPError"
    [] kind = "not_json"   -> "JSONDecodeError"
    [] kind = "not_object" -> "AttributeError"

\* Variant: the handler catches requests.HTTPError only.
IsHTTPError(exc) == exc = "HTTPError"

\* except requests.RequestException: Timeout, HTTPError and (requests 2.27 and
\* later) JSONDecodeError are RequestExceptions, AttributeError is not.
IsRequestException(exc) == exc \in {"Timeout", "HTTPError", "JSONDecodeError"}

\* LegalSearchEngine._fetch_from_repository(endpoint, query), as the outcome of
\* its task on the response the repository gives.
FetchFromRepository(response) ==
  IF response.kind = "ok" THEN Value(response.results)
  ELSE IF response.kind = "no_results" THEN Value(<<>>)
  ELSE IF IsRequestException(ExceptionOf(response.kind)) THEN Value(<<>>)
  ELSE Raised(ExceptionOf(response.kind))

\* Variant: a failure of the model on the query is replaced by a zero vector.
EncodeQueryOrZero(text) ==
  Value(IF EncodeRaises(text) THEN <<0, 0>> ELSE Encode(text))

\* query_embedding = self.model.encode([prompt])[0], as its outcome.
EncodeQuery(text) ==
  IF EncodeRaises(text) THEN Raised("RuntimeError") ELSE Value(Encode(text))

\* Variant: a request without threshold is served with threshold 0.
RequestThresholdOrZero(req) ==
  IF req.threshold = Omitted THEN 0 ELSE req.threshold[1]

\* SearchRequest.threshold: the field of the body, the default when absent.
RequestThreshold(req) ==
  IF req.threshold = Omitted THEN DefaultThreshold ELSE req.threshold[1]

\* Variant: the key is ignored and the list keeps the order of the appends.
InsertLast(sorted, r) == Append(sorted, r)

\* list.sort(key=similarity_score, reverse=True): stable, so results of equal
\* score keep the order in which they were appended.
RECURSIVE InsertDesc(_, _)
InsertDesc(sorted, r) ==
  IF sorted = <<>> THEN <<r>>
  ELSE IF Head(sorted).similarity_score >= r.similarity_score
       THEN <<Head(sorted)>> \o InsertDesc(Tail(sorted), r)
       ELSE <<r>> \o sorted

\* Variant: the list is returned in the order of completion.
Unsorted(seq) == seq

RECURSIVE SortDesc(_)
SortDesc(seq) ==
  IF seq = <<>> THEN <<>>
  ELSE InsertDesc(SortDesc(SubSeq(seq, 1, Len(seq) - 1)), seq[Len(seq)])

(* ------------------------------- state --------------------------------- *)

\* A future of the executor: submitted and running, done with an outcome, or
\* done and already yielded by as_completed.
NotSubmitted == [state |-> "none", response |-> [kind |-> "none", results |-> <<>>], out |-> Absent]

Running == [state |-> "running", response |-> [kind |-> "none", results |-> <<>>], out |-> Absent]

\* What the repositories have delivered so far in this search.
RECURSIVE Delivered(_)
Delivered(es) ==
  IF es = {} THEN 0
  ELSE LET e == CHOOSE x \in es : TRUE
       IN  Load(fetchF[e].response) + Delivered(es \ {e})

\* raw_results of the fetch future the outer loop is at.
RawResults == [i \in DOMAIN fetchF[cur].out.value |-> Record[fetchF[cur].out.value[i]]]

AllConsumed(futures) == \A k \in DOMAIN futures : futures[k].state = "consumed"

NoneRunning(futures) == \A k \in DOMAIN futures : futures[k].state # "running"

\* Two calls of search in progress at a time, each on an engine of its own.
Calls == {1, 2}

\* The locals of a search that has not started.
IdleCall ==
  [pc |-> "idle", request |-> [query |-> "", threshold |-> Omitted], prompt |-> "", similarity_threshold |-> DefaultThreshold,
   query_embedding |-> <<0, 0>>, left |-> 0, received |-> <<>>,
   raw_results |-> <<>>, pending |-> {}, results |-> <<>>]

\* null of JavaScript.
Null == "<null>"

\* App and SearchForm as mounted: useState('') and useState(0.7) in the form,
\* useState([]), useState(false) and useState(null) in the page; no search
\* has been submitted.
AppMounted ==
  [query |-> "", threshold |-> DefaultSliderThreshold, touched |-> FALSE,
   results |-> <<>>, isLoading |-> FALSE, error |-> Null,
   submitted |-> 0, onSearchCalls |-> 0, lastCall |-> <<>>,
   pending |-> {}, outcome |-> <<>>]

\* GitWidget as mounted: no handler is running, useState(false) and
\* useState(null) for isCommitting and commitError; no request has been sent.
GitWidgetMounted ==
  [pc |-> "idle", caller |-> "none", isCommitting |-> FALSE, commitError |-> Null,
   pushes |-> 0, lastPull |-> "none"]

\* What is remembered of the poll settled last: whether its three requests
\* all succeeded, and the data they carried if so. Nothing has settled yet.
NoneSettled == [ok |-> FALSE, data |-> <<0, 0, 0>>]

\* useGitStatus as mounted: the placeholders of useState (an empty branch, an
\* empty commit and 0 pull requests, all shown as 0), isLoading true, no error;
\* no poll has started.
GitStatusMounted ==
  [currentBranch |-> 0, lastCommit |-> 0, openPRs |-> 0,
   isLoading |-> TRUE, error |-> Null,
   inFlight |-> 0, lastSettled |-> NoneSettled]

\* LogSearchWidget as mounted: useState([]) for logs, false for isLoading,
\* null for error, three empty search parameters; no request has been sent.
LogSearchMounted ==
  [logs |-> <<>>, isLoading |-> FALSE, error |-> Null,
   searchParams |-> [query |-> "", level |-> "", service |-> ""],
   searches |-> 0, queryParams |-> {}, inFlight |-> {}]

\* No request is being served.
NoRequest == [query |-> "", threshold |-> Omitted]

Init ==
  /\ request = NoRequest
  /\ pc = "idle"
  /\ prompt = ""
  /\ similarity_threshold = DefaultThreshold
  /\ query_embedding = <<0, 0>>
  /\ fetchF = [e \in Endpoints |-> NotSubmitted]
  /\ cur = "courtlistener"
  /\ procF = <<>>
  /\ results = <<>>
  /\ error = NoError
  /\ calls = [c \in Calls |-> IdleCall]
  /\ app = AppMounted
  /\ git = GitWidgetMounted
  /\ gitStatus = GitStatusMounted
  /\ logWidget = LogSearchMounted

(* ------------------------------ actions -------------------------------- *)

\* Variant: the fetches are submitted first and the query is left to be
\* embedded later.
SearchEndpointLazy(req) ==
  /\ pc = "idle"
  /\ request' = req
  /\ similarity_threshold' = RequestThreshold(req)
  /\ prompt' = req.query
  /\ results' = <<>>
  /\ fetchF' = [e \in Endpoints |-> Running]
  /\ pc' = "outer"
  /\ UNCHANGED <<query_embedding, error>>
  /\ UNCHANGED <<cur, procF, calls, uiVars>>

\* search_endpoint up to the first wait of search: the engine is built with
\* the request's threshold, the query is embedded, one fetch is submitted for
\* every endpoint.
\* When embedding the query raises, the exception leaves search at once.
SearchEndpoint(req) ==
  /\ pc = "idle"
  /\ request' = req
  /\ similarity_threshold' = RequestThreshold(req)
  /\ prompt' = req.query
  /\ IF EncodeQuery(req.query).tag = "raise"
     THEN /\ error' = EncodeQuery(req.query).exc
          /\ pc' = "raised"
          /\ UNCHANGED <<query_embedding, results, fetchF>>
     ELSE /\ query_embedding' = EncodeQuery(req.query).value
          /\ results' = <<>>
          /\ fetchF' = [e \in Endpoints |-> Running]
          /\ pc' = "outer"
          /\ UNCHANGED error
  /\ UNCHANGED <<cur, procF, calls, uiVars>>

\* A worker thread finishes _fetch_from_repository for one endpoint.
FetchDone(e) ==
  /\ pc \in {"outer", "inner", "unwinding"}
  /\ fetchF[e].state = "running"
  /\ \E response \in Responses[MaxLoad - Delivered(Endpoints)] :
       fetchF' = [fetchF EXCEPT ![e] = [state |-> "done", response |-> response,
                                        out |-> FetchFromRepository(response)]]
  /\ UNCHANGED <<request, pc, prompt, similarity_threshold, query_embedding, cur, procF, results, error, calls, uiVars>>

\* Variant: a fetch that failed with an empty list is submitted again.
OuterNextRetry(e) ==
  /\ pc = "outer"
  /\ fetchF[e].state = "done"
  /\ IF fetchF[e].out.tag = "raise"
     THEN /\ fetchF' = [fetchF EXCEPT ![e].state = "consumed"]
          /\ error' = fetchF[e].out.exc
          /\ pc' = "unwinding"
          /\ UNCHANGED <<cur, procF>>
     ELSE IF fetchF[e].response.kind \in FailureKinds
     THEN /\ fetchF' = [fetchF EXCEPT ![e] = Running]
          /\ UNCHANGED <<cur, procF, pc, error>>
     ELSE /\ fetchF' = [fetchF EXCEPT ![e].state = "consumed"]
          /\ cur' = e
          /\ procF' = [i \in 1..Len(fetchF[e].out.value) |-> Running]
          /\ pc' = IF fetchF[e].out.value = <<>> THEN "outer" ELSE "inner"
          /\ UNCHANGED error
  /\ UNCHANGED <<request, prompt, similarity_threshold, query_embedding, results, calls, uiVars>>

\* The outer as_completed loop yields a finished fetch: future.result() raises
\* what the task raised, or gives raw_results, for each of which a
\* _process_result task is submitted.
OuterNext(e) ==
  /\ pc = "outer"
  /\ fetchF[e].state = "done"
  /\ fetchF' = [fetchF EXCEPT ![e].state = "consumed"]
  /\ IF fetchF[e].out.tag = "raise"
     THEN /\ error' = fetchF[e].out.exc
          /\ pc' = "unwinding"
          /\ UNCHANGED <<cur, procF>>
     ELSE /\ cur' = e
          /\ procF' = [i \in 1..Len(fetchF[e].out.value) |-> Running]
          /\ pc' = IF fetchF[e].out.value = <<>> THEN "outer" ELSE "inner"
          /\ UNCHANGED error
  /\ UNCHANGED <<request, prompt, similarity_threshold, query_embedding, results, calls, uiVars>>

\* Variant: the scoring task appends its result to the list itself.
ProcDoneAppends(i) ==
  /\ pc \in {"inner", "unwinding"}
  /\ i \in DOMAIN procF
  /\ procF[i].state = "running"
  /\ LET out == ProcessResult(RawResults[i], query_embedding, similarity_threshold)
     IN  /\ procF' = [procF EXCEPT ![i] =
                        [state |-> "done", response |-> Running.response, out |-> Absent]]
         /\ results' = IF out.tag = "value" THEN Append(results, out.value) ELSE results
  /\ UNCHANGED <<request, pc, prompt, similarity_threshold, query_embedding, fetchF, cur, error, calls, uiVars>>

\* A worker thread finishes _process_result for one candidate.
ProcDone(i) ==
  /\ pc \in {"inner", "unwinding"}
  /\ i \in DOMAIN procF
  /\ procF[i].state = "running"
  /\ procF' = [procF EXCEPT ![i] =
                 [state |-> "done", response |-> Running.response,
                  out |-> ProcessResult(RawResults[i], query_embedding, similarity_threshold)]]
  /\ UNCHANGED <<request, pc, prompt, similarity_threshold, query_embedding, fetchF, cur, results, error, calls, uiVars>>

\* The inner as_completed loop yields a finished scoring task: future.result()
\* raises what the task raised, or gives processed_result, appended if truthy.
InnerNext(i) ==
  /\ pc = "inner"
  /\ i \in DOMAIN procF
  /\ procF[i].state = "done"
  /\ procF' = [procF EXCEPT ![i].state = "consumed"]
  /\ IF procF[i].out.tag = "raise"
     THEN /\ error' = procF[i].out.exc
          /\ pc' = "unwinding"
          /\ UNCHANGED results
     ELSE /\ results' = IF procF[i].out.tag = "value"
                        THEN Append(results, procF[i].out.value) ELSE results
          /\ pc' = IF AllConsumed(procF') THEN "outer" ELSE "inner"
          /\ UNCHANGED error
  /\ UNCHANGED <<request, prompt, similarity_threshold, query_embedding, fetchF, cur, calls, uiVars>>

\* Both loops are over: the executor is left, results are sorted and returned.
Return ==
  /\ pc = "outer"
  /\ AllConsumed(fetchF)
  /\ results' = SortDesc(results)
  /\ pc' = "returned"
  /\ UNCHANGED <<request, prompt, similarity_threshold, query_embedding, fetchF, cur, procF, error, calls, uiVars>>

\* An exception leaves the with block: the executor's shutdown waits for the
\* tasks still running, then the exception leaves search.
Raise ==
  /\ pc = "unwinding"
  /\ NoneRunning(fetchF)
  /\ NoneRunning(procF)
  /\ pc' = "raised"
  /\ UNCHANGED <<request, prompt, similarity_threshold, query_embedding, fetchF, cur, procF, results, error, calls, uiVars>>

\* search_endpoint answers (the result list, or a failure) and the engine of
\* this request is dropped.
Respond ==
  /\ pc \in {"returned", "raised"}
  /\ request' = NoRequest
  /\ pc' = "idle"
  /\ prompt' = ""
  /\ similarity_threshold' = DefaultThreshold
  /\ query_embedding' = <<0, 0>>
  /\ fetchF' = [e \in Endpoints |-> NotSubmitted]
  /\ cur' = "courtlistener"
  /\ procF' = <<>>
  /\ results' = <<>>
  /\ error' = NoError
  /\ UNCHANGED <<calls, uiVars>>

Next ==
  \/ \E req \in Requests : SearchEndpoint(req)
  \/ \E e \in Endpoints : FetchDone(e)
  \/ \E e \in Endpoints : OuterNext(e)
  \/ \E i \in 1..MaxLoad : ProcDone(i)
  \/ \E i \in 1..MaxLoad : InnerNext(i)
  \/ Return
  \/ Raise
  \/ Respond

Spec == Init /\ [][Next]_vars

\* The repository whose connection may stall: requests.get is called without
\* a timeout argument, so nothing ends a request the server never answers.
Stalling == "public_access"

\* Scheduling: the thread of search and the worker threads of the executor
\* run whenever they can, and every repository but the stalling one answers
\* or fails in the end.
LiveSpec ==
  /\ Init /\ [][Next]_vars
  /\ \A e \in Endpoints \ {Stalling} : WF_vars(FetchDone(e))
  /\ \A e \in Endpoints : WF_vars(OuterNext(e))
  /\ \A i \in 1..MaxLoad : WF_vars(ProcDone(i))
  /\ \A i \in 1..MaxLoad : WF_vars(InnerNext(i))
  /\ WF_vars(Return)
  /\ WF_vars(Raise)
  /\ WF_vars(Respond)

(* ------------------------ two searches at a time ----------------------- *)

\* Each search has its own engine (search_endpoint builds one per request),
\* its own executor and its own locals; the tasks of the two interleave.

\* The request bodies of the two searches.
ConcRequests == [query : {"a"}, threshold : {<<80>>}] \cup [query : {""}, threshold : {Omitted}]

\* The records the repositories return to them.
ConcDocs == {"roe", "doe", "poe"}

\* The number of candidates the calls of cs have received.
RECURSIVE ReceivedBy(_)
ReceivedBy(cs) ==
  IF cs = {} THEN 0
  ELSE LET c == CHOOSE x \in cs : TRUE
       IN  Len(calls[c].received) + ReceivedBy(cs \ {c})

\* search up to its first wait: the engine of this call with the threshold of
\* its request, the query embedding, one fetch submitted per endpoint.
CallStart(c, req) ==
  /\ calls[c].pc = "idle"
  /\ calls' = [calls EXCEPT ![c] =
                 [pc |-> "outer", request |-> req, prompt |-> req.query,
                  similarity_threshold |-> RequestThreshold(req),
                  query_embedding |-> EncodeQuery(req.query).value,
                  left |-> Cardinality(Endpoints), received |-> <<>>,
                  raw_results |-> <<>>, pending |-> {}, results |-> <<>>]]
  /\ UNCHANGED <<searchVars, uiVars>>

\* The outer loop of call c takes a finished fetch and submits the scoring
\* tasks of its raw_results to the executor of c.
CallOuterNext(c, docs) ==
  /\ calls[c].pc = "outer"
  /\ calls[c].left > 0
  /\ ReceivedBy(Calls) + Len(docs) <= MaxInFlight
  /\ calls' = [calls EXCEPT ![c].left = @ - 1,
                            ![c].received = @ \o docs,
                            ![c].raw_results = docs,
                            ![c].pending = DOMAIN docs,
                            ![c].pc = IF docs = <<>> THEN "outer" ELSE "inner"]
  /\ UNCHANGED <<searchVars, uiVars>>

\* Variant: the results of every call are appended to one list, that of call 1.
CallInnerNextShared(c, i) ==
  /\ calls[c].pc = "inner"
  /\ i \in calls[c].pending
  /\ LET out == ProcessResult(Record[calls[c].raw_results[i]],
                              calls[c].query_embedding, calls[c].similarity_threshold)
         rest == calls[c].pending \ {i}
         taken == [calls EXCEPT ![c].pending = rest,
                                ![c].pc = IF out.tag = "raise" THEN "raised"
                                          ELSE IF rest = {} THEN "outer" ELSE "inner"]
     IN  calls' = IF out.tag = "value"
                  THEN [taken EXCEPT ![1].results = Append(@, out.value)]
                  ELSE taken
  /\ UNCHANGED <<searchVars, uiVars>>

\* A scoring task of call c finishes and the inner loop of c takes it: it ran
\* _process_result on the engine of c with the query embedding of c, and its
\* result, if any, is appended to the results of c.
CallInnerNext(c, i) ==
  /\ calls[c].pc = "inner"
  /\ i \in calls[c].pending
  /\ LET out == ProcessResult(Record[calls[c].raw_results[i]],
                              calls[c].query_embedding, calls[c].similarity_threshold)
         rest == calls[c].pending \ {i}
         taken == [calls EXCEPT ![c].pending = rest,
                                ![c].pc = IF out.tag = "raise" THEN "raised"
                                          ELSE IF rest = {} THEN "outer" ELSE "inner"]
     IN  calls' = IF out.tag = "value"
                  THEN [taken EXCEPT ![c].results = Append(@, out.value)]
                  ELSE taken
  /\ UNCHANGED <<searchVars, uiVars>>

\* Both loops of call c are over: its results are sorted and returned.
CallReturn(c) ==
  /\ calls[c].pc = "outer"
  /\ calls[c].left = 0
  /\ calls' = [calls EXCEPT ![c].results = SortDesc(@), ![c].pc = "returned"]
  /\ UNCHANGED <<searchVars, uiVars>>

\* search_endpoint answers call c and its engine is dropped.
CallRespond(c) ==
  /\ calls[c].pc \in {"returned", "raised"}
  /\ calls' = [calls EXCEPT ![c] = IdleCall]
  /\ UNCHANGED <<searchVars, uiVars>>

ConcNext ==
  \/ \E c \in Calls, req \in ConcRequests : CallStart(c, req)
  \/ \E c \in Calls, docs \in SeqsUpTo(ConcDocs, MaxInFlight) : CallOuterNext(c, docs)
  \/ \E c \in Calls, i \in 1..MaxInFlight : CallInnerNext(c, i)
  \/ \E c \in Calls : CallReturn(c)
  \/ \E c \in Calls : CallRespond(c)

ConcSpec == Init /\ [][ConcNext]_vars

(* ------------------- the search page: App, SearchForm ------------------ *)

\* Any submit event on the form reaches handleSubmit, whatever isLoading is:
\* the button is disabled while loading, handleSubmit checks nothing.

\* Texts typed into the query input.
FormQueries == {"a", "b"}

\* Values the range input reports (strings).
SliderValues == {"0.8", "1"}

\* parseFloat on the value of the range input, in hundredths.
ParseFloat(value) ==
  CASE value = "0.8" -> 80
    [] value = "1"   -> 100

\* The result lists the backend may answer with, by the titles of the results.
ResultLists == {<<>>, <<"Roe">>, <<"Doe">>}

\* What the POST /api/search of one search ends in: a 2xx with a results
\* array, a non-2xx status with or without a detail, no response at all.
AppResponses ==
  [kind : {"ok"}, results : ResultLists, detail : {Missing}]
    \cup [kind : {"http_error"}, results : {<<>>}, detail : {Missing, "Invalid threshold"}]
    \cup [kind : {"network"}, results : {<<>>}, detail : {Missing}]

\* searchLegal(request), as the outcome of its promise on that response.
SearchLegal(response) ==
  IF response.kind = "ok" THEN Value(response.results)
  ELSE Raised(IF response.detail # Missing THEN response.detail ELSE "Search failed")

\* The message handleSearch shows for a failed search.
SearchFailedMessage == "Search failed. Please try again."

\* Variant: the button is never disabled.
SearchFormViewEnabled(isLoading) ==
  [disabled |-> FALSE, label |-> IF isLoading THEN "Searching..." ELSE "Search"]

\* What SearchForm renders for its submit button.
SearchFormView(isLoading) ==
  [disabled |-> isLoading, label |-> IF isLoading THEN "Searching..." ELSE "Search"]

\* What App renders: the form with its isLoading prop, and the result list.
AppView ==
  [form |-> SearchFormView(app.isLoading),
   spinner |-> app.isLoading,
   error |-> app.error,
   results |-> app.results]

\* onChange of the query input: setQuery(e.target.value).
ChangeQuery(q) ==
  /\ app.query # q
  /\ app' = [app EXCEPT !.query = q]
  /\ UNCHANGED <<searchVars, calls, git, gitStatus, logWidget>>

\* onChange of the slider: setThreshold(parseFloat(e.target.value)).
ChangeThreshold(value) ==
  /\ app.threshold # ParseFloat(value)
  /\ app' = [app EXCEPT !.threshold = ParseFloat(value), !.touched = TRUE]
  /\ UNCHANGED <<searchVars, calls, git, gitStatus, logWidget>>

\* Variant: onSearch is called with the values the form was mounted with.
HandleSubmitStale ==
  /\ app.submitted < MaxSubmits
  /\ app' = [app EXCEPT !.submitted = @ + 1,
                        !.onSearchCalls = @ + 1,
                        !.lastCall = <<AppMounted.query, AppMounted.threshold>>,
                        !.isLoading = TRUE,
                        !.error = Null,
                        !.pending = @ \cup {app.submitted + 1},
                        !.outcome = Append(@, Absent)]
  /\ UNCHANGED <<searchVars, calls, git, gitStatus, logWidget>>

\* handleSubmit, and handleSearch up to its await: onSearch(query, threshold)
\* is called, which sets isLoading, clears error and posts the request.
HandleSubmit ==
  /\ app.submitted < MaxSubmits
  /\ app' = [app EXCEPT !.submitted = @ + 1,
                        !.onSearchCalls = @ + 1,
                        !.lastCall = <<app.query, app.threshold>>,
                        !.isLoading = TRUE,
                        !.error = Null,
                        !.pending = @ \cup {app.submitted + 1},
                        !.outcome = Append(@, Absent)]
  /\ UNCHANGED <<searchVars, calls, git, gitStatus, logWidget>>

\* Variant: a failed search empties the result list.
HandleSearchSettledClears(id, response) ==
  /\ id \in app.pending
  /\ LET out == SearchLegal(response)
     IN  app' = [app EXCEPT !.pending = @ \ {id},
                            !.outcome[id] = out,
                            !.results = IF out.tag = "value" THEN out.value ELSE <<>>,
                            !.error = IF out.tag = "value" THEN @ ELSE SearchFailedMessage,
                            !.isLoading = FALSE]
  /\ UNCHANGED <<searchVars, calls, git, gitStatus, logWidget>>

\* handleSearch after its await: the promise of searchLegal of search id has
\* settled; setResults on success, setError on failure, setIsLoading(false).
HandleSearchSettled(id, response) ==
  /\ id \in app.pending
  /\ LET out == SearchLegal(response)
     IN  app' = [app EXCEPT !.pending = @ \ {id},
                            !.outcome[id] = out,
                            !.results = IF out.tag = "value" THEN out.value ELSE @,
                            !.error = IF out.tag = "value" THEN @ ELSE SearchFailedMessage,
                            !.isLoading = FALSE]
  /\ UNCHANGED <<searchVars, calls, git, gitStatus, logWidget>>

AppNext ==
  \/ \E q \in FormQueries : ChangeQuery(q)
  \/ \E value \in SliderValues : ChangeThreshold(value)
  \/ HandleSubmit
  \/ \E id \in 1..MaxSubmits, response \in AppResponses : HandleSearchSettled(id, response)

AppSpec == Init /\ [][AppNext]_vars

(* ------------------ the dashboard: useGitStatus, GitWidget ------------- *)

\* The data a Git status endpoint answers with: what it reports is named by a
\* number (1 and 2 are two branches, two commits, two counts).
Versions == {1, 2}

\* The reply to one request of a poll: a 2xx with a JSON body, a 2xx whose
\* body is not JSON, a non-2xx status, or no response (fetch rejects).
PollReplies ==
  [kind : {"ok"}, data : Versions]
    \cup [kind : {"bad_json", "not_ok", "network"}, data : {0}]

\* The messages of the errors raised outside the code: the TypeError of a
\* fetch that got no response, the SyntaxError of response.json().
FetchRejected == "Failed to fetch"
JsonRejected == "Unexpected token"

\* fetchGitStatus between its first await and its setStatus, on the replies to
\* the branch, commit and PRs requests: the three values, or the error caught.
GitStatusOutcome(rb, rc, rp) ==
  IF \E r \in {rb, rc, rp} : r.kind = "network" THEN Raised(FetchRejected)
  ELSE IF rb.kind = "not_ok" THEN Raised("Failed to fetch branch")
  ELSE IF rc.kind = "not_ok" THEN Raised("Failed to fetch commit")
  ELSE IF rp.kind = "not_ok" THEN Raised("Failed to fetch PRs")
  ELSE IF \E r \in {rb, rc, rp} : r.kind = "bad_json" THEN Raised(JsonRejected)
  ELSE Value([currentBranch |-> rb.data, lastCommit |-> rc.data, openPRs |-> rp.data])

\* The three replies of a poll as remembered once it settled.
Settled(rb, rc, rp) ==
  IF \A r \in {rb, rc, rp} : r.kind = "ok"
  THEN [ok |-> TRUE, data |-> <<rb.data, rc.data, rp.data>>]
  ELSE NoneSettled

\* fetchGitStatus up to its await: isLoading is set, error cleared, the three
\* requests are sent.
PollStarted(status) ==
  [status EXCEPT !.isLoading = TRUE, !.error = Null, !.inFlight = @ + 1]

\* The mount, the 5 s interval or a visibility change calls fetchGitStatus.
StartPoll ==
  /\ gitStatus.inFlight < MaxPolls
  /\ gitStatus' = PollStarted(gitStatus)
  /\ UNCHANGED <<searchVars, calls, app, git, logWidget>>

\* Variant: each value is updated as soon as its own request succeeded.
PollSettledPartial(rb, rc, rp) ==
  /\ gitStatus.inFlight > 0
  /\ LET out == GitStatusOutcome(rb, rc, rp)
     IN  gitStatus' =
           [gitStatus EXCEPT
              !.currentBranch = IF rb.kind = "ok" THEN rb.data ELSE @,
              !.lastCommit = IF rc.kind = "ok" THEN rc.data ELSE @,
              !.openPRs = IF rp.kind = "ok" THEN rp.data ELSE @,
              !.isLoading = FALSE,
              !.error = IF out.tag = "value" THEN Null ELSE out.exc,
              !.inFlight = @ - 1,
              !.lastSettled = Settled(rb, rc, rp)]
  /\ UNCHANGED <<searchVars, calls, app, git, logWidget>>

\* fetchGitStatus after its awaits, for one poll in flight: the three values
\* are set together, or the error is.
PollSettled(rb, rc, rp) ==
  /\ gitStatus.inFlight > 0
  /\ LET out == GitStatusOutcome(rb, rc, rp)
     IN  gitStatus' =
           [gitStatus EXCEPT
              !.currentBranch = IF out.tag = "value" THEN out.value.currentBranch ELSE @,
              !.lastCommit = IF out.tag = "value" THEN out.value.lastCommit ELSE @,
              !.openPRs = IF out.tag = "value" THEN out.value.openPRs ELSE @,
              !.isLoading = FALSE,
              !.error = IF out.tag = "value" THEN Null ELSE out.exc,
              !.inFlight = @ - 1,
              !.lastSettled = Settled(rb, rc, rp)]
  /\ UNCHANGED <<searchVars, calls, app, git, logWidget>>

\* The buttons of the widget are disabled while the status is loading or a
\* handler is running.
ButtonsDisabled == gitStatus.isLoading \/ git.isCommitting

\* The reply to a push or pull request: 2xx with a JSON body, 2xx with a body
\* that is not JSON, 409, another non-2xx status with or without a detail in
\* its body, or no response.
GitReplies ==
  [kind : {"ok", "bad_json", "conflict", "network"}, detail : {Missing}]
    \cup [kind : {"not_ok"}, detail : {Missing, "remote rejected"}]

\* response.ok of a reply that is a response.
ResponseOk(reply) == reply.kind \in {"ok", "bad_json"}

\* The Push button: handlePush up to its await.
ClickPush ==
  /\ git.pc = "idle"
  /\ ~ButtonsDisabled
  /\ git.pushes < MaxPushes
  /\ git' = [git EXCEPT !.pc = "pushing", !.caller = "none", !.isCommitting = TRUE,
                        !.commitError = Null, !.pushes = @ + 1]
  /\ UNCHANGED <<searchVars, calls, app, gitStatus, logWidget>>

\* handlePush after its await. On 409 the user is asked; on yes handlePull
\* runs up to its await. On success refetch() starts a poll.
PushSettled(reply, shouldPull) ==
  /\ git.pc = "pushing"
  /\ IF reply.kind = "ok"
     THEN /\ gitStatus.inFlight < MaxPolls
          /\ gitStatus' = PollStarted(gitStatus)
          /\ git' = [git EXCEPT !.pc = "idle", !.isCommitting = FALSE]
     ELSE IF reply.kind = "conflict" /\ shouldPull
     THEN /\ git.pushes < MaxPushes
          /\ git' = [git EXCEPT !.pc = "pulling", !.caller = "push",
                                !.isCommitting = TRUE, !.commitError = Null]
          /\ UNCHANGED gitStatus
     ELSE /\ git' = [git EXCEPT
                       !.pc = "idle",
                       !.isCommitting = FALSE,
                       !.commitError =
                         IF reply.kind = "conflict" THEN "Please pull changes first"
                         ELSE IF reply.kind = "network" THEN FetchRejected
                         ELSE IF reply.kind = "bad_json" THEN JsonRejected
                         ELSE IF reply.detail # Missing THEN reply.detail
                         ELSE "Failed to push changes"]
          /\ UNCHANGED gitStatus
  /\ UNCHANGED <<searchVars, calls, app, logWidget>>

\* The Pull button: handlePull up to its await.
ClickPull ==
  /\ git.pc = "idle"
  /\ ~ButtonsDisabled
  /\ git' = [git EXCEPT !.pc = "pulling", !.caller = "button", !.isCommitting = TRUE,
                        !.commitError = Null]
  /\ UNCHANGED <<searchVars, calls, app, gitStatus, logWidget>>

\* What handlePull does to the widget after its await.
PullFinished(widget, reply) ==
  [widget EXCEPT
     !.isCommitting = FALSE,
     !.lastPull = IF ResponseOk(reply) THEN "ok" ELSE "failed",
     !.commitError = IF ResponseOk(reply) THEN @
                     ELSE IF reply.kind = "network" THEN FetchRejected
                     ELSE "Failed to pull changes"]

\* handlePull after its await: refetch() on success, the error otherwise,
\* caught inside handlePull. When handlePush awaited it, handlePush goes on
\* with `return handlePush()`: the push is sent again.
PullSettled(reply) ==
  /\ git.pc = "pulling"
  /\ IF ResponseOk(reply)
     THEN gitStatus.inFlight < MaxPolls /\ gitStatus' = PollStarted(gitStatus)
     ELSE UNCHANGED gitStatus
  /\ git' = IF git.caller = "push"
            THEN [PullFinished(git, reply) EXCEPT
                    !.pc = "pushing", !.caller = "none", !.isCommitting = TRUE,
                    !.commitError = Null, !.pushes = @ + 1]
            ELSE [PullFinished(git, reply) EXCEPT !.pc = "idle", !.caller = "none"]
  /\ UNCHANGED <<searchVars, calls, app, logWidget>>

GitNext ==
  \/ StartPoll
  \/ \E rb, rc, rp \in PollReplies : PollSettled(rb, rc, rp)
  \/ ClickPush
  \/ \E reply \in GitReplies, shouldPull \in BOOLEAN : PushSettled(reply, shouldPull)
  \/ ClickPull
  \/ \E reply \in GitReplies : PullSettled(reply)

GitSpec == Init /\ [][GitNext]_vars

(* ---------------------- the dashboard: LogSearchWidget ----------------- *)

\* The value of a property a JSON object does not have (written as a list of
\* one mark, which no log list is).
Undefined == <<"<undefined>">>

\* The values typed or selected in the three fields of the search form.
LogParamValues ==
  [query |-> {"", "timeout"}, level |-> {"", "error"}, service |-> {"", "api"}]

\* The query string fetchLogs builds: the parameters whose value is not empty.
QueryParams(params) ==
  {<<key, params[key]>> : key \in {k \in DOMAIN params : params[k] # ""}}

\* The log lists a response carries.
LogLists == {<<>>, <<"boot">>, <<"boot", "crash">>}

\* The reply to a log search: a JSON object with a logs array, a JSON object
\* without a logs field (with a 2xx or a non-2xx status), the JSON value null,
\* a body that is not JSON, or no response.
LogReplies ==
  [kind : {"object"}, status : {200}, logs : LogLists]
    \cup [kind : {"object"}, status : {200, 500}, logs : {Undefined}]
    \cup [kind : {"null", "not_json", "network"}, status : {0}, logs : {Undefined}]

\* fetchLogs between its await and its setLogs: data.logs, or the exception.
LogsOf(reply) ==
  IF reply.kind = "object" THEN Value(reply.logs) ELSE Raised(reply.kind)

\* The part of the widget under the form: the error box, the list, or the
\* exception of logs.map on a value that is not an array.
LogView(widget) ==
  IF widget.error # Null THEN "error"
  ELSE IF widget.logs = Undefined THEN "throws"
  ELSE "list"

\* The widget is on the page: no render of it has thrown.
LogMounted == LogView(logWidget) # "throws"

\* onChange of the query input and of the two selects.
ChangeSearchParam(key, value) ==
  /\ LogMounted
  /\ logWidget.searchParams[key] # value
  /\ logWidget' = [logWidget EXCEPT !.searchParams[key] = value]
  /\ UNCHANGED <<searchVars, calls, app, git, gitStatus>>

\* The form is submitted: handleSearch, fetchLogs up to its await.
LogSearch ==
  /\ LogMounted
  /\ logWidget.searches < MaxLogSearches
  /\ logWidget' =
       [logWidget EXCEPT
          !.isLoading = TRUE,
          !.searches = @ + 1,
          !.queryParams = QueryParams(logWidget.searchParams),
          !.inFlight = @ \cup {logWidget.searches + 1}]
  /\ UNCHANGED <<searchVars, calls, app, git, gitStatus>>

\* fetchLogs after its awaits, for one request in flight: setLogs(data.logs)
\* and setError(null) whatever the status, or the error; isLoading is reset.
LogsSettled(id, reply) ==
  /\ LogMounted
  /\ id \in logWidget.inFlight
  /\ LET out == LogsOf(reply)
     IN  logWidget' =
           [logWidget EXCEPT
              !.logs = IF out.tag = "value" THEN out.value ELSE @,
              !.error = IF out.tag = "value" THEN Null ELSE "Failed to fetch logs",
              !.isLoading = FALSE,
              !.inFlight = @ \ {id}]
  /\ UNCHANGED <<searchVars, calls, app, git, gitStatus>>

LogNext ==
  \/ \E key \in DOMAIN LogParamValues :
       \E value \in LogParamValues[key] : ChangeSearchParam(key, value)
  \/ LogSearch
  \/ \E id \in 1..MaxLogSearches, reply \in LogReplies : LogsSettled(id, reply)

LogSpec == Init /\ [][LogNext]_vars

(* ------------------------ vocabulary of the claims --------------------- *)

\* The threshold of the call being served: the request's, 0.7 when omitted.
CallThreshold ==
  IF request.threshold = Omitted THEN 70 ELSE request.threshold[1]

\* The fetch of e is over.
Fetched(e) == fetchF[e].state \in {"done", "consumed"}

\* The candidates a repository has returned (the results array of a 200 body).
CandidatesOf(e) ==
  IF Fetched(e) /\ fetchF[e].response.kind = "ok"
  THEN [i \in DOMAIN fetchF[e].response.results |-> Record[fetchF[e].response.results[i]]]
  ELSE <<>>

RECURSIVE Concat(_)
Concat(es) ==
  IF es = {} THEN <<>>
  ELSE LET e == CHOOSE x \in es : TRUE
       IN  CandidatesOf(e) \o Concat(es \ {e})

\* Every candidate of every repository, one entry per occurrence.
AllCandidates == Concat(Endpoints)

HasText(c) == c.text \notin {Missing, ""}

\* Similarity of a candidate's text to the query of the call.
SimilarityOf(c) == CosineSimilarity(Encode(request.query), Encode(c.text))

Qualifies(c) == HasText(c) /\ SimilarityOf(c) >= CallThreshold

\* What identifies a result: its text, its score and its title.
ViewOfResult(r) ==
  [content |-> r.content, score |-> r.similarity_score, title |-> r.title]

ViewOfCandidate(c) ==
  [content |-> c.text, score |-> SimilarityOf(c),
   title |-> IF c.title = Missing THEN "Untitled" ELSE c.title]

MapSeq(seq, F(_)) == [i \in DOMAIN seq |-> F(seq[i])]

BagOfSeq(seq) ==
  [x \in {seq[i] : i \in DOMAIN seq} |-> Cardinality({i \in DOMAIN seq : seq[i] = x})]

Failed == pc \in {"unwinding", "raised"}

(* ------------------------------- claims -------------------------------- *)

\* C1: every result of the sequence a search returns has a similarity_score
\* at least the threshold of that call.
C1_ScoresClearThreshold ==
  pc = "returned" =>
    \A i \in DOMAIN results : results[i].similarity_score >= CallThreshold

\* A search has returned a result and has dropped a candidate with a text
\* whose similarity is below the threshold.
C1_Witness ==
  /\ pc = "returned"
  /\ results # <<>>
  /\ \E i \in DOMAIN AllCandidates :
       HasText(AllCandidates[i]) /\ SimilarityOf(AllCandidates[i]) < CallThreshold

\* C2: the sequence a search returns is sorted non-increasing by
\* similarity_score, whatever order the tasks completed in.
C2_SortedDescending ==
  pc = "returned" =>
    \A i \in 1..(Len(results) - 1) :
      results[i].similarity_score >= results[i + 1].similarity_score

\* A repository returned the lower-scoring candidate before the higher-scoring
\* one, and the search has returned both.
C2_Witness ==
  /\ pc = "returned"
  /\ Len(results) = 2
  /\ results[1].similarity_score > results[2].similarity_score
  /\ \E e \in Endpoints :
       /\ Len(CandidatesOf(e)) = 2
       /\ SimilarityOf(CandidatesOf(e)[1]) < SimilarityOf(CandidatesOf(e)[2])

\* C3: a fetch that fails in transport (timeout, non-2xx status, malformed
\* body) gives the empty sequence and raises nothing.
C3_FetchFailureGivesEmpty ==
  \A e \in Endpoints :
    (Fetched(e) /\ fetchF[e].response.kind \in FailureKinds)
      => fetchF[e].out = Value(<<>>)

\* C4: a source that times out raises nothing, and when the search returns
\* beside a source that timed out, every candidate of another source that
\* clears the threshold is among the results.
C4_TimeoutIsolated ==
  /\ \A e \in Endpoints :
       (Fetched(e) /\ fetchF[e].response.kind = "timeout") => fetchF[e].out = Value(<<>>)
  /\ pc = "returned" =>
       \A e1, e2 \in Endpoints :
         (e1 # e2 /\ fetchF[e2].response.kind = "timeout") =>
           \A i \in DOMAIN CandidatesOf(e1) :
             Qualifies(CandidatesOf(e1)[i]) =>
               \E j \in DOMAIN results :
                 ViewOfResult(results[j]) = ViewOfCandidate(CandidatesOf(e1)[i])

\* One source timed out, another returned a candidate that clears the
\* threshold, and the search has returned.
C4_Witness ==
  /\ pc = "returned"
  /\ results # <<>>
  /\ \E e1, e2 \in Endpoints :
       /\ e1 # e2
       /\ fetchF[e2].response.kind = "timeout"
       /\ \E i \in DOMAIN CandidatesOf(e1) : Qualifies(CandidatesOf(e1)[i])

\* C5: when embedding a candidate's text fails the candidate is dropped: its
\* scoring task yields no result and the search does not fail for it.
C5_EmbeddingFailureDropped ==
  \A i \in DOMAIN procF :
    (procF[i].state \in {"done", "consumed"} /\ EncodeRaises(RawResults[i].text))
      => (procF[i].out = Absent /\ (procF[i].state = "consumed" => ~Failed))

\* C6: a candidate with a text and an unparsable date is scored without an
\* exception, and a result made of it carries the default date.
C6_BadDateDefaults ==
  \A i \in DOMAIN procF :
    ( /\ procF[i].state \in {"done", "consumed"}
      /\ HasText(RawResults[i])
      /\ ~EncodeRaises(RawResults[i].text)
      /\ RawResults[i].date_created \notin IsoDates \cup {Missing} )
      => /\ procF[i].out.tag # "raise"
         /\ procF[i].out.tag = "value" => procF[i].out.value.date_published = <<2000, 1, 1>>

\* C7: a search with a threshold outside [0,1] dispatches no fetch and returns
\* no result list.
C7_InvalidThresholdRejected ==
  (pc # "idle" /\ CallThreshold \notin 0..100) =>
    /\ \A e \in Endpoints : fetchF[e].state = "none"
    /\ pc # "returned"

\* C8: a search with an empty query dispatches no fetch and returns no result
\* list.
C8_EmptyQueryRejected ==
  (pc # "idle" /\ request.query = "") =>
    /\ \A e \in Endpoints : fetchF[e].state = "none"
    /\ pc # "returned"

\* C9: the sequence a search returns holds exactly the candidates, of any
\* source, that have a text and a similarity at least the threshold, once per
\* occurrence.
C9_ExactlyQualifying ==
  pc = "returned" =>
    BagOfSeq(MapSeq(results, ViewOfResult))
      = BagOfSeq(MapSeq(SelectSeq(AllCandidates, Qualifies), ViewOfCandidate))

\* Two sources returned the same document, whose similarity equals the
\* threshold, and the search has returned it twice.
C9_Witness ==
  /\ pc = "returned"
  /\ Len(results) = 2
  /\ results[1] = results[2]
  /\ results[1].similarity_score = CallThreshold
  /\ \E e1, e2 \in Endpoints : e1 # e2 /\ Len(CandidatesOf(e1)) = 1 /\ Len(CandidatesOf(e2)) = 1

\* C10: no result has an empty content, and the scoring task of a candidate
\* whose text is missing or empty yields nothing and raises nothing.
C10_NoEmptyContent ==
  /\ \A i \in DOMAIN results : results[i].content \notin {"", Missing}
  /\ \A i \in DOMAIN procF :
       (procF[i].state \in {"done", "consumed"} /\ ~HasText(RawResults[i]))
         => procF[i].out = Absent

\* A source returned a candidate without text beside one that clears the
\* threshold, and the search has returned.
C10_Witness ==
  /\ pc = "returned"
  /\ results # <<>>
  /\ \E i \in DOMAIN AllCandidates : AllCandidates[i].text = Missing

\* The endpoints and places of the candidates a result can have been built
\* from: those with its text, its title and its score.
OriginsOf(r) ==
  {<<e, i>> \in Endpoints \X (1..MaxLoad) :
     /\ i \in DOMAIN CandidatesOf(e)
     /\ ViewOfCandidate(CandidatesOf(e)[i]) = ViewOfResult(r)}

\* C11 (as stated): the source field of every returned result names the
\* endpoint whose fetch returned its candidate.
C11_SourceNamesEndpoint ==
  pc = "returned" =>
    \A j \in DOMAIN results :
      \E o \in OriginsOf(results[j]) : results[j].source = o[1]

\* C11 (amended): every returned result is built from a candidate that a
\* fetch of this call returned, and its source field is that candidate's court
\* field, "Unknown Court" when the candidate has none.
C11_SourceIsCourtOfCandidate ==
  pc = "returned" =>
    \A j \in DOMAIN results :
      /\ OriginsOf(results[j]) # {}
      /\ \A o \in OriginsOf(results[j]) :
           LET c == CandidatesOf(o[1])[o[2]]
           IN  results[j].source = IF c.court = Missing THEN "Unknown Court" ELSE c.court

\* A search has returned a result whose candidate names a court and another
\* whose candidate names none.
C11_Witness ==
  /\ pc = "returned"
  /\ \E j \in DOMAIN results : results[j].source = "scotus"
  /\ \E j \in DOMAIN results : results[j].source = "Unknown Court"

\* C12: when embedding the query fails the search fails: no fetch is
\* dispatched, nothing is scored and no result list is returned.
C12_QueryEmbeddingFailureAborts ==
  (pc # "idle" /\ EncodeRaises(request.query)) =>
    /\ pc = "raised"
    /\ error # NoError
    /\ \A e \in Endpoints : fetchF[e].state = "none"

\* A search whose query the model failed on has ended in a failure.
C12_Witness ==
  /\ pc = "raised"
  /\ request.query = Unencodable
  /\ error = "RuntimeError"

\* A candidate whose text can be scored and whose score clears the threshold.
Clears(c) == ~EncodeRaises(c.text) /\ Qualifies(c)

\* C13: a search none of whose candidates clears the threshold, for instance
\* one every source of which is empty or failed, returns the empty sequence
\* and does not end in an error.
C13_NoQualifierGivesEmpty ==
  ( /\ pc \in {"returned", "raised"}
    /\ ~EncodeRaises(request.query)
    /\ \A i \in DOMAIN AllCandidates : ~Clears(AllCandidates[i]) )
  => (pc = "returned" /\ results = <<>>)

\* The order in which search submits the fetches: that of self.endpoints.
EndpointOrder == <<"courtlistener", "public_access", "supreme_court">>

IsValue(out) == out.tag = "value"

\* The results of the candidates of e, in the order of its results array.
KeptOf(e) ==
  LET outs == [i \in DOMAIN CandidatesOf(e) |->
                 ProcessResult(CandidatesOf(e)[i], Encode(request.query), CallThreshold)]
      kept == SelectSeq(outs, IsValue)
  IN  [i \in DOMAIN kept |-> kept[i].value]

\* What the search returns for its query, threshold and source data when
\* every task completes in the order of its submission.
InOrderOutput ==
  SortDesc(KeptOf(EndpointOrder[1]) \o KeptOf(EndpointOrder[2]) \o KeptOf(EndpointOrder[3]))

ScoresOf(seq) == [i \in DOMAIN seq |-> seq[i].similarity_score]

\* C14 (as stated): the sequence a search returns is the same under every
\* order of completion of its fetch and score tasks, results of equal score
\* included: it is the one returned when the tasks complete in order.
C14_SameSequenceAnyOrder ==
  pc = "returned" => results = InOrderOutput

\* C14 (amended): under every order of completion the search returns the same
\* results with the same sequence of scores; only results of equal score may
\* change places.
C14_SameUpToTies ==
  pc = "returned" =>
    /\ BagOfSeq(results) = BagOfSeq(InOrderOutput)
    /\ ScoresOf(results) = ScoresOf(InOrderOutput)

\* A search has returned two distinct results of equal score in the order
\* opposite to that of their submission.
C14_Witness ==
  /\ pc = "returned"
  /\ Len(results) = 2
  /\ results[1].similarity_score = results[2].similarity_score
  /\ results # InOrderOutput

\* A fetch of e is dispatched in this step.
Dispatched(e) == fetchF[e].state # "running" /\ fetchF'[e].state = "running"

\* as_completed hands the fetch of e to the outer loop in this step.
Yielded(e) == fetchF[e].state = "done" /\ fetchF'[e].state = "consumed"

\* C15: in one search call a fetch is dispatched to every endpoint, once: all
\* of them when the call starts and none later, so a failed fetch is never
\* retried; a failed source hands no candidate to scoring and adds no result.
C15_FetchedExactlyOnce ==
  /\ []((pc # "idle" /\ ~EncodeRaises(request.query)) =>
          \A e \in Endpoints : fetchF[e].state # "none")
  /\ [][ /\ \A e \in Endpoints :
              Dispatched(e) =>
                (pc = "idle" /\ \A e2 \in Endpoints : Dispatched(e2))
         /\ \A e \in Endpoints :
              (Yielded(e) /\ fetchF[e].response.kind \in FailureKinds) =>
                (results' = results /\ NoneRunning(procF') /\ CandidatesOf(e)' = <<>>)
       ]_vars

\* A search has returned results beside a source whose fetch failed.
C15_Witness ==
  /\ pc = "returned"
  /\ results # <<>>
  /\ \E e \in Endpoints : fetchF[e].response.kind \in FailureKinds

\* The score of a record against the query of call c.
ScoreIn(c, d) == CosineSimilarity(Encode(calls[c].request.query), Encode(Record[d].text))

\* The candidates call c received that clear the threshold of its request.
OwnQualifying(c) ==
  LET IsOwn(d) == ScoreIn(c, d) >= RequestThreshold(calls[c].request)
  IN  SelectSeq(calls[c].received, IsOwn)

\* C16: two searches in progress at a time share no result state: under every
\* interleaving of their tasks, what a call accumulates and what it returns
\* are results of candidates it received itself, scored against its own query
\* and cleared against its own threshold; what it returns is all of them.
C16_NoSharedResults ==
  \A c \in Calls :
    /\ \A j \in DOMAIN calls[c].results :
         \E k \in DOMAIN OwnQualifying(c) :
           /\ calls[c].results[j].content = Record[OwnQualifying(c)[k]].text
           /\ calls[c].results[j].title = Record[OwnQualifying(c)[k]].title
           /\ calls[c].results[j].similarity_score = ScoreIn(c, OwnQualifying(c)[k])
    /\ calls[c].pc = "returned" => Len(calls[c].results) = Len(OwnQualifying(c))

\* One search has returned results while the other, on another query and
\* with results of its own, is still in its loops.
C16_Witness ==
  /\ calls[1].pc = "returned"
  /\ calls[1].results # <<>>
  /\ calls[2].pc = "outer"
  /\ calls[2].left > 0
  /\ calls[2].results # <<>>
  /\ calls[1].request # calls[2].request

\* C17: a search that has started eventually ends, with a list or a failure,
\* even when the request to one repository stalls for ever.
C17_SearchEventuallyEnds ==
  (pc \in {"outer", "inner", "unwinding"}) ~> (pc \in {"returned", "raised"})

\* A scoring task that has finished with a SearchResult.
Scored(i) == procF[i].state \in {"done", "consumed"} /\ procF[i].out.tag = "value"

\* The field of a candidate when the candidate has it, else the default.
FieldOr(c, key, default) == IF c[key] # Missing THEN c[key] ELSE default

\* C18: in the SearchResult of a candidate that clears the threshold, title,
\* source, url and jurisdiction are the candidate's title, court, absolute_url
\* and jurisdiction when it has them, and otherwise "Untitled", "Unknown
\* Court", the empty string and "Unknown".
C18_FieldsOrDefaults ==
  \A i \in DOMAIN procF :
    Scored(i) =>
      /\ procF[i].out.value.title = FieldOr(RawResults[i], "title", "Untitled")
      /\ procF[i].out.value.source = FieldOr(RawResults[i], "court", "Unknown Court")
      /\ procF[i].out.value.url = FieldOr(RawResults[i], "absolute_url", "")
      /\ procF[i].out.value.jurisdiction = FieldOr(RawResults[i], "jurisdiction", "Unknown")

\* Two candidates of one source have been scored into results: one that has
\* the four fields, one that has none of them.
C18_Witness ==
  \E i, j \in DOMAIN procF :
    /\ Scored(i) /\ Scored(j)
    /\ \A key \in {"title", "court", "absolute_url", "jurisdiction"} :
         RawResults[i][key] # Missing /\ RawResults[j][key] = Missing

\* The embeddings of the texts that can be embedded.
Embeddings == {Encode(text) : text \in {"", "a", "b", "z"}}

\* C19: when a search has ended, the similarity of its query embedding and
\* any embedding, in either order, is 0 if one of the two has zero norm; and
\* a candidate scored against a query of zero norm is scored, with 0, without
\* the scorer failing (the only failure left is that of the date).
C19_ZeroNormScoresZero ==
  /\ pc \in {"returned", "raised"} =>
       \A b \in Embeddings :
         (Norm(query_embedding) = 0 \/ Norm(b) = 0) =>
           /\ CosineSimilarity(query_embedding, b) = 0
           /\ CosineSimilarity(b, query_embedding) = 0
  /\ (procF # <<>> /\ Norm(query_embedding) = 0) =>
       \A i \in DOMAIN procF :
         ( /\ procF[i].state \in {"done", "consumed"}
           /\ HasText(RawResults[i]) /\ ~EncodeRaises(RawResults[i].text) )
         => /\ procF[i].out.tag # "none"
            /\ procF[i].out.tag = "value" => procF[i].out.value.similarity_score = 0
            /\ procF[i].out.tag = "raise" =>
                 /\ procF[i].out.exc = "ValueError"
                 /\ RawResults[i].date_created \notin IsoDates \cup {Missing}

\* A candidate has been scored against a query whose embedding is the zero
\* vector, and is a result of score 0.
C19_Witness ==
  \E i \in DOMAIN procF :
    /\ Scored(i)
    /\ Norm(query_embedding) = 0
    /\ procF[i].out.value.similarity_score = 0

\* The results _process_result gives for the candidates of this call under an
\* engine of the given threshold, as a bag.
ResultsAt(threshold) ==
  LET outs == [i \in DOMAIN AllCandidates |->
                 ProcessResult(AllCandidates[i], Encode(request.query), threshold)]
      kept == SelectSeq(outs, IsValue)
  IN  BagOfSeq([i \in DOMAIN kept |-> kept[i].value])

\* C20: a request whose body has no threshold is served by an engine of
\* threshold 0.7, and what it returns is what the same query returns with
\* threshold 0.7 given.
C20_OmittedThresholdIsDefault ==
  (pc # "idle" /\ request.threshold = Omitted) =>
    /\ similarity_threshold = 70
    /\ pc = "returned" => BagOfSeq(results) = ResultsAt(70)

\* A request without threshold has returned a result, and left out a
\* candidate whose score is under 0.7.
C20_Witness ==
  /\ pc = "returned"
  /\ request.threshold = Omitted
  /\ results # <<>>
  /\ \E i \in DOMAIN AllCandidates :
       HasText(AllCandidates[i]) /\ SimilarityOf(AllCandidates[i]) < 70

\* C23: within one search the query vector is the embedding of the query of
\* that search, in place before any fetch or scoring task exists and the same
\* until the search ends; every scoring task scores its candidate against it.
C23_QueryVectorOnceForAll ==
  /\ (\E e \in Endpoints : fetchF[e].state # "none") =>
       (~EncodeRaises(request.query) /\ query_embedding = Encode(request.query))
  /\ \A i \in DOMAIN procF :
       procF[i].state \in {"done", "consumed"} =>
         procF[i].out = ProcessResult(RawResults[i], Encode(request.query), CallThreshold)

\* Two candidates of one source have been scored, to different scores, in a
\* search whose query vector is not the one the engine starts with.
C23_Witness ==
  /\ query_embedding # <<0, 0>>
  /\ \E i, j \in DOMAIN procF :
       /\ Scored(i) /\ Scored(j)
       /\ procF[i].out.value.similarity_score # procF[j].out.value.similarity_score

\* A worker thread completes a task in this step.
WorkerStep ==
  \/ \E e \in Endpoints : fetchF[e].state = "running" /\ fetchF'[e].state = "done"
  \/ \E i \in DOMAIN procF :
       i \in DOMAIN procF' /\ procF[i].state = "running" /\ procF'[i].state = "done"

\* C24: no step in which a fetch or scoring task completes changes the result
\* list; the list grows only in a step of the inner loop of search, by the
\* result of the task that step takes; the list is returned sorted only when
\* every fetch and every scoring task has been taken, and does not change
\* afterwards until the answer is sent.
C24_OrchestratorAloneAppends ==
  /\ [](pc = "returned" => (AllConsumed(fetchF) /\ AllConsumed(procF)))
  /\ [][ /\ WorkerStep => results' = results
         /\ (pc \in {"outer", "inner", "unwinding"} /\ pc' # "returned"
               /\ results' # results) =>
              /\ pc = "inner"
              /\ \E i \in DOMAIN procF :
                   /\ procF[i].state = "done" /\ procF'[i].state = "consumed"
                   /\ results' = Append(results, procF[i].out.value)
         /\ (pc = "returned" /\ pc' = "returned") => results' = results
       ]_vars

\* A search has returned two results that came from the tasks of two sources.
C24_Witness ==
  /\ pc = "returned"
  /\ Len(results) = 2
  /\ \A e \in Endpoints : Len(CandidatesOf(e)) <= 1

\* The form is submitted in this step.
Submitted == app'.submitted = app.submitted + 1

\* C21: each submission of the search form calls onSearch once, with the
\* query and the threshold the form holds at that moment, whatever changes of
\* the input and of the slider came before; the threshold passed is 0.7 when
\* the slider was never moved.
C21_SubmitCallsOnSearchOnce ==
  /\ [](app.onSearchCalls = app.submitted)
  /\ [][ Submitted =>
           /\ app'.onSearchCalls = app.onSearchCalls + 1
           /\ app'.lastCall = <<app.query, app.threshold>>
           /\ ~app.touched => app'.lastCall[2] = 70
       ]_vars

\* The form has been submitted twice, the second time after the query and the
\* slider were changed.
C21_Witness ==
  /\ app.submitted = 2
  /\ app.touched
  /\ app.lastCall = <<"b", 80>>

\* C22: the submit button of the search form is rendered disabled exactly in
\* the states in which isLoading is true.
C22_ButtonDisabledIffLoading ==
  AppView.form.disabled = app.isLoading

\* A search is loading and the button is disabled.
C22_Witness ==
  /\ app.isLoading
  /\ app.pending # {}
  /\ AppView.form.disabled

\* C26: in the search page isLoading is true exactly when at least one search
\* request is in flight.
C26_LoadingIffInFlight ==
  app.isLoading <=> (app.pending # {})

\* The searches that have succeeded.
Succeeded == {id \in DOMAIN app.outcome : app.outcome[id].tag = "value"}

\* The one of ids submitted last.
LastOf(ids) == CHOOSE id \in ids : \A other \in ids : other <= id

\* C27: once no search is in flight, the results in state are those of the
\* search submitted last among those that succeeded.
C27_LatestSearchWins ==
  (app.pending = {} /\ Succeeded # {}) =>
    app.results = app.outcome[LastOf(Succeeded)].value

\* A search settles in failure in this step.
FailsNow(id) ==
  id \in app.pending /\ id \notin app'.pending /\ app'.outcome[id].tag = "raise"

\* C28: a search that fails sets the error message and leaves the results in
\* state as they were.
C28_FailureKeepsResults ==
  [][ \A id \in 1..MaxSubmits :
        FailsNow(id) => (app'.results = app.results /\ app'.error = SearchFailedMessage)
    ]_vars

\* A search succeeded with results, two later ones failed, and the results
\* of the first are still in state beside the error message.
C28_Witness ==
  /\ app.pending = {}
  /\ app.submitted = 3
  /\ Succeeded = {1}
  /\ app.results # <<>>
  /\ app.results = app.outcome[1].value
  /\ app.error = SearchFailedMessage

\* C25: in the Git widget, after a push rejected with 409 and a pull the user
\* agreed to, the push is sent again only when the pull succeeded: the step in
\* which a pull awaited by handlePush settles sends a push request only if the
\* pull succeeded.
C25_PushRetriedOnlyAfterPull ==
  [][(git.pc = "pulling" /\ git.caller = "push" /\ git'.pushes > git.pushes)
       => git'.lastPull = "ok"]_vars

\* The three values the hook holds.
ValuesOf(status) == <<status.currentBranch, status.lastCommit, status.openPRs>>

\* The step settles a poll.
PollSettles == gitStatus'.inFlight < gitStatus.inFlight

\* C29: useGitStatus changes branch, last commit and PR count only in a step
\* that settles a poll whose three requests all succeeded, and then sets all
\* three to the data of that poll with error null and isLoading false; a step
\* that settles a poll with a failed request leaves the three values as they
\* were, sets error and sets isLoading to false.
C29_StatusUpdatedTogether ==
  [][/\ ValuesOf(gitStatus') # ValuesOf(gitStatus)
          => PollSettles /\ gitStatus'.lastSettled.ok
     /\ PollSettles /\ gitStatus'.lastSettled.ok
          => /\ ValuesOf(gitStatus') = gitStatus'.lastSettled.data
             /\ gitStatus'.error = Null
             /\ ~gitStatus'.isLoading
     /\ PollSettles /\ ~gitStatus'.lastSettled.ok
          => /\ ValuesOf(gitStatus') = ValuesOf(gitStatus)
             /\ gitStatus'.error # Null
             /\ ~gitStatus'.isLoading]_vars

\* A poll has failed after an earlier one succeeded: the values of the earlier
\* poll are held beside the error.
C29_Witness ==
  /\ ~gitStatus.lastSettled.ok
  /\ gitStatus.error # Null
  /\ ~gitStatus.isLoading
  /\ ValuesOf(gitStatus) = <<1, 2, 1>>

\* C30: in the log search widget, in every reachable state logs holds an array
\* or error is set, so the list is never rendered from a value that is not an
\* array.
C30_LogsIsArray ==
  logWidget.logs \in Seq({"boot", "crash"}) \/ logWidget.error # Null

====
